---- MODULE Spec2Model ----
(***************************************************************************)
(* Motion video capture service of the birdhouse viewer                    *)
(* (motion_video_capture.py): the MQTT message callback, the table of      *)
(* active captures, frame ingestion, finalize, and the retention cleanup,  *)
(* together with the database tables and the video directory they act on.  *)
(***************************************************************************)
EXTENDS Integers, Sequences, FiniteSets, TLC

(* ---------------- program constants ---------------- *)
VIDEO_DURATION == 5
MIN_FRAMES == 5
GRACE_PERIOD == 1

(* ---------------- bounds of the model ---------------- *)
\* The source fixes MAX_VIDEOS at 50 (line 37).  cleanup_old_videos is
\* parametric in it; the model explores it at a small value.
MAX_VIDEOS == 2
\* The source fixes FRAME_RATE at 10 (line 39), which makes the target 50
\* frames; the completion test is parametric in it, and the model explores
\* it at a small value that keeps the target above MIN_FRAMES.
FRAME_RATE == 2
\* last second the clock reaches in a run where time passes
MaxTime == 6
\* motion events created in a run of one camera at full rate
RetentionEvents == 3
\* motion events created in a run where time passes
SlowEvents == 1
\* motion events created in a run of all devices
SharedEvents == 2
\* collaborator failures injected in one run
MaxFaults == 1
\* a camera numbers the images it streams after a start command
\* 0, 1, .., FrameCycle-1, 0, ..
FrameCycle == 3

(* ---------------- the world outside the process ---------------- *)
Devices == {"cam1", "cam2", "cam9"}
\* table devices: deviceId -> row (cam9 has no row)
devices == [d \in {"cam1", "cam2"} |-> [id |-> IF d = "cam1" THEN 1 ELSE 2]]
NoDevice == [id |-> 0]

VARIABLES
  active_captures,  \* the dict of line 45, as its set of entries
  motionEvents,     \* table motionEvents
  motionVideos,     \* table motionVideos
  videoSeq,         \* AUTO_INCREMENT counter of motionVideos
  files,            \* paths present in VIDEO_DIR
  published,        \* start commands published, per device
  now,              \* wall clock, in seconds
  faults,           \* collaborator failures injected so far
  quota,            \* the bounds of this run
  last,             \* what the last handled message did
  in_callback,      \* the message whose on_message call is running
  dispatched        \* ids of the motion events whose push dispatch
                    \* returned HTTP 200

vars == <<active_captures, motionEvents, motionVideos, videoSeq, files,
          published, now, faults, quota, last, in_callback,
          dispatched>>

(* ---------------- the dict active_captures ---------------- *)
DictHas(ac, k) == \E s \in ac : s.device_id = k
DictGet(ac, k) == CHOOSE s \in ac : s.device_id = k
\* mutant: the store adds an entry and keeps the old one
DictSet_keeps_old(ac, k, v) == ac \cup {v}
DictSet(ac, k, v) == {s \in ac : s.device_id # k} \cup {v}
\* mutant: the del leaves the entry
DictDel_leaves_entry(ac, k) == ac
DictDel(ac, k) == {s \in ac : s.device_id # k}

(* ---------------- topics and payloads ---------------- *)
\* A topic is its sequence of level names and "/" separators.
RECURSIVE split(_)
split(s) ==
  IF s = <<>> THEN <<"">>
  ELSE IF Head(s) = "/" THEN <<"">> \o split(Tail(s))
  ELSE LET r == split(Tail(s)) IN <<Head(s)>> \o Tail(r)

Topic(d, k) == <<"device", "/", d, "/", k>>

\* A motion payload is a sequence of tokens; "0xff" is not UTF-8.
Whitespace == {" ", "\n"}
RECURSIVE lstrip(_)
lstrip(s) ==
  IF s # <<>> /\ Head(s) \in Whitespace THEN lstrip(Tail(s)) ELSE s
RECURSIVE rstrip(_)
rstrip(s) ==
  IF s # <<>> /\ s[Len(s)] \in Whitespace
  THEN rstrip(SubSeq(s, 1, Len(s) - 1)) ELSE s
strip(s) == rstrip(lstrip(s))
decodable(s) == \A i \in 1..Len(s) : s[i] # "0xff"

MotionPayloads ==
  { <<"detected">>, <<" ", "detected", "\n">>, <<"1">>, <<"0xff">> }

\* An image is a sequence of bytes; its Base64 text is a sequence of
\* characters: 100 + b stands for the characters encoding byte b, 1 for
\* alphabet characters short of a padded group, 0 for a character outside
\* the Base64 alphabet.
b64encode(img) == [i \in 1..Len(img) |-> img[i] + 100]
\* base64.b64decode without validate: characters outside the alphabet are
\* discarded, then the padding must be correct.
InAlphabet(c) == c # 0
b64valid(text) ==
  \A i \in 1..Len(text) : InAlphabet(text[i]) => text[i] >= 100
b64decode(text) ==
  [i \in 1..Len(SelectSeq(text, InAlphabet)) |->
     SelectSeq(text, InAlphabet)[i] - 100]

\* A stream payload: json says whether json.loads succeeds, has_image
\* whether the object has the key 'image', image is the Base64 text.  The
\* cameras of the model send an image, a text cut short, an object without
\* image, or no JSON.
StreamPayloads(img) ==
  { [json |-> TRUE,  has_image |-> TRUE,  image |-> b64encode(img)],
    [json |-> TRUE,  has_image |-> TRUE,  image |-> <<1>>],
    [json |-> TRUE,  has_image |-> FALSE, image |-> <<>>],
    [json |-> FALSE, has_image |-> FALSE, image |-> <<>>] }

Path(device_id, ts) == [dev |-> device_id, ts |-> ts]
NoPath == Path("", 0)

(* ---------------- the handler's view of the world ---------------- *)
\* W carries the state a handler reads and writes: ac (active_captures),
\* ev (motionEvents), vid (motionVideos), seq (videoSeq), files, pub
\* (published), t (the clock), and the record of the handler's own calls:
\* calls (collaborator calls in order), encoded (the frame lists given to
\* the encoder), finalized (calls of finalize_video), nfail (failures
\* injected).
Call(name, path, id, ok) == [call |-> name, path |-> path, id |-> id, ok |-> ok]
Log(W, c) == [W EXCEPT !.calls = Append(@, c)]
Fail(W, c) == [W EXCEPT !.calls = Append(@, c), !.nfail = @ + 1]

\* What the collaborators answer during one handler.
Env ==
  [ lookup : BOOLEAN,      \* get_db_connection works in get_device_info
    create : BOOLEAN,      \* the INSERT of create_motion_event works
    enc    : {"ok", "fail", "partial"},  \* ffmpeg; partial leaves a file
    save   : BOOLEAN,      \* the INSERT of save_video_to_db works
    clean  : {"ok", "noconn", "execute", "commit"},  \* where cleanup fails
    stuck  : BOOLEAN,      \* os.remove raises in cleanup
    tie    : {"asc", "desc"} ]  \* row order among equal capturedAt
AllFine == [lookup |-> TRUE, create |-> TRUE, enc |-> "ok", save |-> TRUE,
            clean |-> "ok", stuck |-> FALSE, tie |-> "asc"]

(* ---------------- database collaborators ---------------- *)
\* Each returns the world after the call and the call's result.
get_device_info(W, device_id, e) ==
  IF device_id \notin DOMAIN devices
  THEN [W |-> Log(W, Call("get_device_info", NoPath, 0, FALSE)),
        ret |-> NoDevice]
  ELSE IF ~e.lookup
  THEN [W |-> Fail(W, Call("get_device_info", NoPath, 0, FALSE)),
        ret |-> NoDevice]
  ELSE [W |-> Log(W, Call("get_device_info", NoPath, devices[device_id].id, TRUE)),
        ret |-> devices[device_id]]

create_motion_event(W, device_db_id, e) ==
  IF ~e.create
  THEN [W |-> Fail(W, Call("create_motion_event", NoPath, 0, FALSE)),
        ret |-> 0]
  ELSE [W |-> Log([W EXCEPT !.ev = @ \cup
                     {[id |-> Cardinality(W.ev) + 1, deviceId |-> device_db_id,
                       notificationSent |-> 1]}],
                  Call("create_motion_event", NoPath, Cardinality(W.ev) + 1, TRUE)),
        ret |-> Cardinality(W.ev) + 1]

save_video_to_db(W, device_db_id, motion_event_id, filepath, e) ==
  IF ~e.save
  THEN [W |-> Fail(W, Call("save_video_to_db", filepath, 0, FALSE)),
        ret |-> FALSE]
  ELSE [W |-> Log([W EXCEPT !.seq = @ + 1, !.vid = @ \cup
                     {[id |-> W.seq + 1, deviceId |-> device_db_id,
                       motionEventId |-> motion_event_id,
                       filepath |-> filepath, duration |-> VIDEO_DURATION,
                       capturedAt |-> W.t]}],
                  Call("save_video_to_db", filepath, W.seq + 1, TRUE)),
        ret |-> TRUE]

\* ORDER BY capturedAt ASC LIMIT n; the order of rows with equal capturedAt
\* is not fixed by the query.
Before(r, q, tie) ==
  \/ r.capturedAt < q.capturedAt
  \/ /\ r.capturedAt = q.capturedAt
     /\ IF tie = "asc" THEN r.id <= q.id ELSE r.id >= q.id
First(rows, tie) == CHOOSE r \in rows : \A q \in rows : Before(r, q, tie)
RECURSIVE OrderByLimit(_, _, _)
OrderByLimit(rows, n, tie) ==
  IF n = 0 \/ rows = {} THEN <<>>
  ELSE <<First(rows, tie)>> \o OrderByLimit(rows \ {First(rows, tie)}, n - 1, tie)

\* Lines 153-158: the file of one video is removed when it exists; a
\* failing os.remove is logged and the loop goes on.
remove_file(W, video, stuck) ==
  IF video.filepath \notin W.files THEN W
  ELSE IF stuck
  THEN Fail(W, Call("os.remove", video.filepath, video.id, FALSE))
  ELSE Log([W EXCEPT !.files = @ \ {video.filepath}],
           Call("os.remove", video.filepath, video.id, TRUE))

\* The loop of lines 151-161 from video i on.  del collects the rows whose
\* DELETE was executed; raised tells that an execute raised.
RECURSIVE cleanup_loop(_, _, _, _, _)
cleanup_loop(W, old_videos, i, del, e) ==
  IF i > Len(old_videos) THEN [W |-> W, del |-> del, raised |-> FALSE]
  ELSE IF e.clean = "execute" /\ i = 1
  THEN [W |-> Fail(remove_file(W, old_videos[i], e.stuck /\ i = 1),
                   Call("DELETE", old_videos[i].filepath, old_videos[i].id, FALSE)),
        del |-> del, raised |-> TRUE]
  ELSE cleanup_loop(Log(remove_file(W, old_videos[i], e.stuck /\ i = 1),
                        Call("DELETE", old_videos[i].filepath, old_videos[i].id, TRUE)),
                    old_videos, i + 1, del \cup {old_videos[i]}, e)

\* Lines 163-164: the DELETEs take effect at the commit; without it the
\* transaction is rolled back, the files stay removed.
cleanup_commit(r, e) ==
  IF r.raised THEN r.W
  ELSE IF e.clean = "commit"
  THEN Fail(r.W, Call("commit", NoPath, 0, FALSE))
  ELSE Log([r.W EXCEPT !.vid = @ \ r.del], Call("commit", NoPath, 0, TRUE))

\* mutant: the cleanup starts two rows late
cleanup_select_late(W, rows, e) ==
  IF Cardinality(rows) >= MAX_VIDEOS + 2
  THEN cleanup_commit(
         cleanup_loop(W, OrderByLimit(rows, Cardinality(rows) - MAX_VIDEOS + 1, e.tie),
                      1, {}, e), e)
  ELSE W
\* Lines 139-149, given the rows of the device.
cleanup_select(W, rows, e) ==
  IF Cardinality(rows) >= MAX_VIDEOS
  THEN cleanup_commit(
         cleanup_loop(W, OrderByLimit(rows, Cardinality(rows) - MAX_VIDEOS + 1, e.tie),
                      1, {}, e), e)
  ELSE W

\* mutant: the rows are counted and selected over all devices
cleanup_old_videos_all_devices(W, device_db_id, e) ==
  IF e.clean = "noconn"
  THEN Fail(W, Call("cleanup_old_videos", NoPath, 0, FALSE))
  ELSE cleanup_select(Log(W, Call("cleanup_old_videos", NoPath, 0, TRUE)),
                      W.vid, e)
cleanup_old_videos(W, device_db_id, e) ==
  IF e.clean = "noconn"
  THEN Fail(W, Call("cleanup_old_videos", NoPath, 0, FALSE))
  ELSE cleanup_select(Log(W, Call("cleanup_old_videos", NoPath, 0, TRUE)),
                      {v \in W.vid : v.deviceId = device_db_id}, e)

(* ---------------- the encoder ---------------- *)
\* ffmpeg writes output_path when it succeeds and may leave a partial file
\* there when it fails.
create_mjpeg_video(W, frames, output_path, e) ==
  IF e.enc = "ok"
  THEN [W |-> Log([W EXCEPT !.encoded = Append(@, frames),
                            !.files = @ \cup {output_path}],
                  Call("create_mjpeg_video", output_path, Len(frames), TRUE)),
        ret |-> TRUE]
  ELSE [W |-> Fail([W EXCEPT !.encoded = Append(@, frames),
                             !.files = IF e.enc = "partial"
                                       THEN @ \cup {output_path} ELSE @],
                   Call("create_mjpeg_video", output_path, Len(frames), FALSE)),
        ret |-> FALSE]

(* ---------------- finalize ---------------- *)
\* mutant: no rollback of the file
finalize_saved_keeps_file(saved, device_id, capture, filepath, e) ==
  [ (IF saved.ret
     THEN cleanup_old_videos(saved.W, capture.device_db_id, e)
     ELSE saved.W)
    EXCEPT !.ac = DictDel(@, device_id) ]
\* Lines 299-310, after the INSERT of the metadata.
finalize_saved(saved, device_id, capture, filepath, e) ==
  [ (IF saved.ret
     THEN cleanup_old_videos(saved.W, capture.device_db_id, e)
     ELSE IF filepath \in saved.W.files
     THEN Log([saved.W EXCEPT !.files = @ \ {filepath}],
              Call("os.remove", filepath, 0, TRUE))
     ELSE saved.W)
    EXCEPT !.ac = DictDel(@, device_id) ]

\* mutant: the result of the encoder is not tested
finalize_encoded_unchecked(enc, device_id, capture, filepath, e) ==
  finalize_saved(save_video_to_db(enc.W, capture.device_db_id,
                                  capture.motion_event_id, filepath, e),
                 device_id, capture, filepath, e)
\* Lines 295-310, after the encoder.
finalize_encoded(enc, device_id, capture, filepath, e) ==
  IF enc.ret
  THEN finalize_saved(save_video_to_db(enc.W, capture.device_db_id,
                                       capture.motion_event_id, filepath, e),
                      device_id, capture, filepath, e)
  ELSE [enc.W EXCEPT !.ac = DictDel(@, device_id)]

\* mutant: no minimum of frames
finalize_capture_any_length(W, device_id, capture, e) ==
  finalize_encoded(
    create_mjpeg_video(W, capture.frames, Path(device_id, W.t), e),
    device_id, capture, Path(device_id, W.t), e)
\* Lines 279-310, with the capture of the device.
finalize_capture(W, device_id, capture, e) ==
  IF Len(capture.frames) < MIN_FRAMES
  THEN [W EXCEPT !.ac = DictDel(@, device_id)]
  ELSE finalize_encoded(
         create_mjpeg_video(W, capture.frames, Path(device_id, W.t), e),
         device_id, capture, Path(device_id, W.t), e)

finalize_video(W, device_id, e) ==
  IF ~DictHas(W.ac, device_id)
  THEN [W EXCEPT !.finalized = @ + 1]
  ELSE finalize_capture([W EXCEPT !.finalized = @ + 1], device_id,
                        DictGet(W.ac, device_id), e)

(* ---------------- frame ingestion ---------------- *)
\* mutant: the frame count must exceed the target
check_complete_count_exceeds(W, device_id, capture, e) ==
  IF \/ Len(capture.frames) > VIDEO_DURATION * FRAME_RATE
     \/ W.t - capture.start_time >= VIDEO_DURATION + GRACE_PERIOD
  THEN finalize_video(W, device_id, e)
  ELSE W
\* mutant: the elapsed time must exceed the limit
check_complete_time_exceeds(W, device_id, capture, e) ==
  IF \/ Len(capture.frames) >= VIDEO_DURATION * FRAME_RATE
     \/ W.t - capture.start_time > VIDEO_DURATION + GRACE_PERIOD
  THEN finalize_video(W, device_id, e)
  ELSE W
\* Lines 260-266: the completion test on the capture after the append.
check_complete(W, device_id, capture, e) ==
  IF \/ Len(capture.frames) >= VIDEO_DURATION * FRAME_RATE
     \/ W.t - capture.start_time >= VIDEO_DURATION + GRACE_PERIOD
  THEN finalize_video(W, device_id, e)
  ELSE W

\* Lines 257-258: the frame goes to the tail of the capture's list.
append_frame(capture, image_data) ==
  [capture EXCEPT !.frames = Append(@, image_data)]

\* mutant: the frame is stored without the completion test
add_frame_unchecked(W, device_id, capture, e) ==
  [W EXCEPT !.ac = DictSet(@, device_id, capture)]
\* Lines 256-266, with the capture after the append.
add_frame(W, device_id, capture, e) ==
  check_complete([W EXCEPT !.ac = DictSet(@, device_id, capture)],
                 device_id, capture, e)

process_stream_message(W, device_id, message, e) ==
  IF ~message.json THEN W
  ELSE IF ~message.has_image THEN W
  ELSE IF ~b64valid(message.image) THEN W
  ELSE IF DictHas(W.ac, device_id)
  THEN add_frame(W, device_id,
                 append_frame(DictGet(W.ac, device_id), b64decode(message.image)),
                 e)
  ELSE W

(* ---------------- trigger ---------------- *)
\* Lines 336-337: the start command goes to device/<deviceId>/control; the
\* result of publish is not looked at.  The call is recorded with the
\* motion event id of the device's entry in the table at that moment (0
\* when it has none).
publish(W, device_id) ==
  Log([W EXCEPT !.pub[device_id] = @ + 1],
      Call("publish", Path(device_id, 0),
           IF DictHas(W.ac, device_id)
           THEN DictGet(W.ac, device_id).motion_event_id ELSE 0,
           TRUE))

\* mutant: the start command is published before the entry is stored
open_capture_publishes_first(W, device_id, device_info, motion_event_id) ==
  [publish(W, device_id)
     EXCEPT !.ac = DictSet(@, device_id,
                           [device_id |-> device_id, frames |-> <<>>,
                            start_time |-> W.t,
                            motion_event_id |-> motion_event_id,
                            device_db_id |-> device_info.id])]
\* Lines 326-337: the entry is stored, then the start command published.
open_capture(W, device_id, device_info, motion_event_id) ==
  publish([W EXCEPT !.ac = DictSet(@, device_id,
                             [device_id |-> device_id, frames |-> <<>>,
                              start_time |-> W.t,
                              motion_event_id |-> motion_event_id,
                              device_db_id |-> device_info.id])],
          device_id)

\* Lines 320-337, with the motion event created.
start_with_event(ev, device_id, device_info) ==
  IF ev.ret = 0 THEN ev.W
  ELSE open_capture(ev.W, device_id, device_info, ev.ret)

\* mutant: the result of the lookup is not tested
start_with_device_unchecked(info, device_id, e) ==
  start_with_event(create_motion_event(info.W, info.ret.id, e),
                   device_id, info.ret)
\* Lines 315-337, with the device looked up.
start_with_device(info, device_id, e) ==
  IF info.ret.id = 0 THEN info.W
  ELSE start_with_event(create_motion_event(info.W, info.ret.id, e),
                        device_id, info.ret)

start_video_capture(W, device_id, e) ==
  start_with_device(get_device_info(W, device_id, e), device_id, e)

(* ---------------- the message callback ---------------- *)
\* mutant: a stream message of a device without capture starts one
dispatch_stream_starts(W, topic_parts, payload, e) ==
  IF Len(topic_parts) < 3 THEN W
  ELSE IF topic_parts[3] = "motion"
  THEN IF ~decodable(payload) THEN W
       ELSE IF strip(payload) = <<"detected">>
       THEN start_video_capture(W, topic_parts[2], e)
       ELSE W
  ELSE IF topic_parts[3] = "stream"
  THEN IF DictHas(W.ac, topic_parts[2])
       THEN process_stream_message(W, topic_parts[2], payload, e)
       ELSE start_video_capture(W, topic_parts[2], e)
  ELSE W
\* Lines 361-374, with the topic split.
dispatch(W, topic_parts, payload, e) ==
  IF Len(topic_parts) < 3 THEN W
  ELSE IF topic_parts[3] = "motion"
  THEN IF ~decodable(payload) THEN W
       ELSE IF strip(payload) = <<"detected">>
       THEN start_video_capture(W, topic_parts[2], e)
       ELSE W
  ELSE IF topic_parts[3] = "stream"
  THEN IF DictHas(W.ac, topic_parts[2])
       THEN process_stream_message(W, topic_parts[2], payload, e)
       ELSE W
  ELSE W

on_message(W, topic, payload, e) == dispatch(W, split(topic), payload, e)

(* ---------------- the state machine ---------------- *)
World ==
  [ac |-> active_captures, ev |-> motionEvents, vid |-> motionVideos,
   seq |-> videoSeq, files |-> files, pub |-> published, t |-> now,
   calls |-> <<>>, encoded |-> <<>>, finalized |-> 0, nfail |-> 0]

\* last when the last step was a clock tick or a message that reached no
\* collaborator and left the table alone.
Idle == [op |-> "none", dev |-> "", calls |-> <<>>, encoded |-> <<>>,
         finalized |-> 0]

\* A run is one of: a single camera streaming at full rate (capture after
\* capture, so that retention is reached); a single camera while the clock
\* advances (slow and stalled streams); all devices sharing the service,
\* every collaborator working.
Scenarios ==
  { [devs |-> {"cam1"}, events |-> RetentionEvents, faults |-> MaxFaults,
     time |-> 0],
    [devs |-> {"cam1"}, events |-> SlowEvents, faults |-> MaxFaults,
     time |-> MaxTime],
    [devs |-> Devices, events |-> SharedEvents, faults |-> 0, time |-> 0] }

\* in_callback while the network loop waits for a message
NoMessage == [op |-> "none", dev |-> "", topic |-> <<>>, payload |-> <<>>]

Init ==
  /\ active_captures = {}
  /\ motionEvents = {}
  /\ motionVideos = {}
  /\ videoSeq = 0
  /\ files = {}
  /\ published = [d \in Devices |-> 0]
  /\ now = 0
  /\ faults = 0
  /\ quota \in Scenarios
  /\ last = Idle
  /\ in_callback = NoMessage
  /\ dispatched = {}

\* The state after a handler that leaves the world W.
Commit(op, d, W) ==
  /\ Cardinality(W.ev) <= quota.events
  /\ faults + W.nfail <= quota.faults
  /\ active_captures' = W.ac
  /\ motionEvents' = W.ev
  /\ motionVideos' = W.vid
  /\ videoSeq' = W.seq
  /\ files' = W.files
  /\ published' = W.pub
  /\ faults' = faults + W.nfail
  /\ last' = IF W.calls = <<>> /\ W.finalized = 0 /\ W.ac = active_captures
             THEN Idle
             ELSE [op |-> op, dev |-> d, calls |-> W.calls,
                   encoded |-> W.encoded, finalized |-> W.finalized]
  /\ UNCHANGED <<now, quota, dispatched>>

\* The collaborators' answers matter only to a message whose handler
\* reaches a collaborator when all of them work (W0).
Answer(op, d, topic, payload, env, W0) ==
  IF W0.calls = <<>>
  THEN Commit(op, d, W0)
  ELSE \E e \in env : Commit(op, d, on_message(World, topic, payload, e))

\* One call of on_message.
Deliver(op, d, topic, payload, env) ==
  Answer(op, d, topic, payload, env, on_message(World, topic, payload, AllFine))

MotionEnv == {e \in Env : /\ e.enc = "ok" /\ e.save /\ e.clean = "ok"
                          /\ ~e.stuck /\ e.tie = "asc"
                          /\ (~e.lookup => e.create)}
StreamEnv == {e \in Env : /\ e.lookup /\ e.create
                          /\ (e.enc # "ok" => e.save)
                          /\ (e.enc # "ok" \/ ~e.save => e.clean = "ok")
                          /\ (e.enc # "ok" \/ ~e.save \/ e.clean = "noconn"
                                => ~e.stuck /\ e.tie = "asc")}

\* The image a camera sends next: it numbers its images from the start
\* command, so the number is the count of frames of the open capture.
Camera(d) ==
  IF DictHas(active_captures, d)
  THEN <<Len(DictGet(active_captures, d).frames) % FrameCycle>> ELSE <<0>>

\* In Spec a message is received and handled in one step.
Motion ==
  /\ \E d \in quota.devs, payload \in MotionPayloads :
       Deliver("motion", d, Topic(d, "motion"), payload, MotionEnv)
  /\ UNCHANGED in_callback

Stream ==
  /\ \E d \in quota.devs :
       \E payload \in StreamPayloads(Camera(d)) :
         Deliver("stream", d, Topic(d, "stream"), payload, StreamEnv)
  /\ UNCHANGED in_callback

Tick ==
  /\ now < quota.time
  /\ now' = now + 1
  /\ last' = Idle
  /\ UNCHANGED <<active_captures, motionEvents, motionVideos, videoSeq,
                 files, published, faults, quota, in_callback, dispatched>>

Next == Motion \/ Stream \/ Tick

Spec == Init /\ [][Next]_vars

\* The network loop, one step per call and return of on_message (lines
\* 389-397): loop_forever runs in the main thread, takes a message off the
\* socket, calls on_message and takes the next message when the call has
\* returned.  The handler's effects are placed at the return.
Take(op, d, payload) ==
  /\ Cardinality(on_message(World, Topic(d, op), payload, AllFine).ev)
       <= quota.events
  /\ in_callback' = [op |-> op, dev |-> d, topic |-> Topic(d, op),
                     payload |-> payload]

Receive ==
  /\ in_callback.op = "none"
  /\ \E d \in quota.devs :
       \/ \E payload \in MotionPayloads : Take("motion", d, payload)
       \/ \E payload \in StreamPayloads(Camera(d)) : Take("stream", d, payload)
  /\ UNCHANGED <<active_captures, motionEvents, motionVideos, videoSeq,
                 files, published, now, faults, quota, last, dispatched>>

Return ==
  /\ in_callback.op # "none"
  /\ Deliver(in_callback.op, in_callback.dev, in_callback.topic,
             in_callback.payload,
             IF in_callback.op = "motion" THEN MotionEnv ELSE StreamEnv)
  /\ in_callback' = NoMessage

LoopInit == Init /\ quota.devs = Devices
LoopNext == Receive \/ Return
LoopSpec == LoopInit /\ [][LoopNext]_vars

\* The service handles every message it receives and the clock advances;
\* no device is bound to send.
FairSpec == Spec /\ WF_vars(Tick)

(* ---------------- the notification handler ---------------- *)
\* motion_notification_handler.py is a second service on the same broker
\* and the same table motionEvents.  It subscribes to device/+/motion.
\* What its collaborators answer during one call: the device lookup, the
\* INSERT of the event, the HTTP status of the push dispatch (0 when
\* requests.post raised or the API is not configured), the UPDATE.
NotifyEnv ==
  [lookup : BOOLEAN, record : BOOLEAN, status : {200, 500, 0}, mark : BOOLEAN]

\* json.loads of the decoded payload succeeds
json_loads(payload) == strip(payload) \in { <<"1">>, <<"{}">> }
NotifyPayloads == MotionPayloads \cup { <<"{}">> }

record_motion_event(ev, device_db_id, n) ==
  IF ~n.record THEN [ev |-> ev, ret |-> 0]
  ELSE [ev |-> ev \cup {[id |-> Cardinality(ev) + 1, deviceId |-> device_db_id,
                         notificationSent |-> 0]},
        ret |-> Cardinality(ev) + 1]

send_push_notification_to_device_users(n) == n.status = 200

mark_notification_sent(ev, event_id, n) ==
  IF ~n.mark THEN ev
  ELSE {IF r.id = event_id THEN [r EXCEPT !.notificationSent = 1] ELSE r :
          r \in ev}

\* Lines 296-313 of the handler, with the event recorded.
notify_recorded(rec, disp, n) ==
  IF rec.ret = 0 THEN [ev |-> rec.ev, disp |-> disp]
  ELSE IF send_push_notification_to_device_users(n)
  THEN [ev |-> mark_notification_sent(rec.ev, rec.ret, n),
        disp |-> disp \cup {rec.ret}]
  ELSE [ev |-> rec.ev, disp |-> disp]

\* on_message of the handler (lines 267-316): the events and the
\* successful dispatches after the call.
notification_on_message(ev, disp, topic_parts, payload, n) ==
  IF ~decodable(payload) THEN [ev |-> ev, disp |-> disp]
  ELSE IF Len(topic_parts) # 3 \/ topic_parts[1] # "device"
          \/ topic_parts[3] # "motion"
  THEN [ev |-> ev, disp |-> disp]
  ELSE IF ~json_loads(payload) THEN [ev |-> ev, disp |-> disp]
  ELSE IF topic_parts[2] \notin DOMAIN devices \/ ~n.lookup
  THEN [ev |-> ev, disp |-> disp]
  ELSE notify_recorded(record_motion_event(ev, devices[topic_parts[2]].id, n),
                       disp, n)

\* The handler's result takes the place of the events and the dispatches.
NotifyCommit(R) ==
  /\ Cardinality(R.ev) <= quota.events
  /\ motionEvents' = R.ev
  /\ dispatched' = R.disp
  /\ last' = Idle
  /\ UNCHANGED <<active_captures, motionVideos, videoSeq, files, published,
                 now, faults, quota, in_callback>>

Notify ==
  \E d \in quota.devs, payload \in NotifyPayloads, n \in NotifyEnv :
    NotifyCommit(notification_on_message(motionEvents, dispatched,
                                         split(Topic(d, "motion")), payload, n))

\* Both services at work on the same table.
StoreInit == Init /\ quota.devs = Devices
StoreNext == Motion \/ Stream \/ Notify
StoreSpec == StoreInit /\ [][StoreNext]_vars

(* ---------------- vocabulary of the claims ---------------- *)
Registered == DOMAIN devices
Target == VIDEO_DURATION * FRAME_RATE
Limit == VIDEO_DURATION + GRACE_PERIOD
Open(d) == DictHas(active_captures, d)
Session(d) == DictGet(active_captures, d)
Elapsed(d) == now - Session(d).start_time
\* l.calls holds a call of name with outcome ok
Called(l, name, ok) ==
  \E i \in 1..Len(l.calls) : l.calls[i].call = name /\ l.calls[i].ok = ok
\* the frames a camera sends after a start command, in the order sent
Numbered(frames) ==
  \A i \in 1..Len(frames) : frames[i] = <<(i - 1) % FrameCycle>>

\* C1: a motion trigger handled for a device that has an open capture
\* changes nothing: the entry of the device stays as it is, no motion event
\* is created and no start command is published.
C1_TriggerOnOpenCaptureIsNoOp ==
  [][ \A d \in Devices :
        (last'.op = "motion" /\ last'.dev = d /\ Open(d))
          => /\ active_captures' = active_captures
             /\ motionEvents' = motionEvents
             /\ published' = published ]_vars

\* C2: in a run where one device alone was captured and no collaborator
\* failed, once more than MAX_VIDEOS videos were saved, exactly MAX_VIDEOS
\* rows remain and they are the MAX_VIDEOS saved last.
OnlyDevice(d) == \A ev \in motionEvents : ev.deviceId = devices[d].id
C2_RetentionKeepsNewestMax ==
  \A d \in Registered :
    (faults = 0 /\ OnlyDevice(d) /\ ~Open(d) /\ videoSeq > MAX_VIDEOS)
      => {v.id : v \in motionVideos} = (videoSeq - MAX_VIDEOS + 1)..videoSeq

\* C3: the table of active captures holds at most one entry per device.
C3_OneCapturePerDevice ==
  \A d \in Devices :
    Cardinality({s \in active_captures : s.device_id = d}) <= 1
\* a second trigger for a device has been handled and its capture is open
C3_Witness ==
  \E s \in active_captures :
    /\ last.op = "motion" /\ last.dev = s.device_id
    /\ Cardinality({ev \in motionEvents : ev.deviceId = s.device_db_id}) >= 2

\* C4: a capture starts with no frames; while less than Limit seconds have
\* passed since its start, a frame that leaves it below Target frames is
\* appended without a finalize, and the frame that makes it reach Target
\* frames runs finalize once, the encoder receiving the frames of the
\* capture followed by that frame, numbered in the order sent, and the
\* capture leaving the table.
C4_FinalizeOnTargetFrame ==
  [][ \A d \in Devices :
        /\ (last'.op = "motion" /\ last'.dev = d /\ published'[d] # published[d])
             => DictGet(active_captures', d).frames = <<>>
        /\ (last'.op = "stream" /\ last'.dev = d /\ Open(d) /\ Elapsed(d) < Limit)
             => IF Len(Session(d).frames) + 1 = Target
                THEN /\ last'.finalized = 1
                     /\ Len(last'.encoded) = 1
                     /\ SubSeq(last'.encoded[1], 1, Target - 1) = Session(d).frames
                     /\ Len(last'.encoded[1]) = Target
                     /\ Numbered(last'.encoded[1])
                     /\ ~DictHas(active_captures', d)
                ELSE /\ last'.finalized = 0
                     /\ Len(Session(d).frames) + 1 < Target
                     /\ Numbered(DictGet(active_captures', d).frames)
                     /\ Len(DictGet(active_captures', d).frames)
                          = Len(Session(d).frames) + 1 ]_vars
\* finalize has just run on the frame that completed a capture
C4_Witness ==
  /\ last.op = "stream" /\ last.finalized = 1
  /\ Len(last.encoded) = 1 /\ Len(last.encoded[1]) = Target

\* What a stream message appending a frame short of Target must do when
\* the time test says due, and when it says not due.
TimedFinalize(d, due) ==
  (last'.op = "stream" /\ last'.dev = d /\ Open(d)
     /\ Len(Session(d).frames) + 1 < Target)
    => IF due
       THEN /\ last'.finalized = 1
            /\ ~DictHas(active_captures', d)
            /\ IF Len(Session(d).frames) + 1 >= MIN_FRAMES
               THEN /\ Len(last'.encoded) = 1
                    /\ Len(last'.encoded[1]) = Len(Session(d).frames) + 1
                    /\ SubSeq(last'.encoded[1], 1, Len(Session(d).frames))
                         = Session(d).frames
               ELSE last'.encoded = <<>>
       ELSE /\ last'.finalized = 0
            /\ DictHas(active_captures', d)

\* C5 as stated: a frame appended below Target finalizes, once and with the
\* frames accumulated, exactly when more than Limit seconds have passed
\* since the start of the capture.
C5_FinalizeWhenElapsedExceeds ==
  [][ \A d \in Devices : TimedFinalize(d, Elapsed(d) > Limit) ]_vars

\* C5 amended: a frame appended below Target finalizes, once and with the
\* frames accumulated, exactly when at least Limit seconds have passed
\* since the start of the capture.
C5_FinalizeWhenElapsedAtLeast ==
  [][ \A d \in Devices : TimedFinalize(d, Elapsed(d) >= Limit) ]_vars
\* finalize has just run on a capture short of Target frames, with enough
\* frames for the encoder
C5_Witness ==
  /\ last.op = "stream" /\ last.finalized = 1
  /\ Len(last.encoded) = 1 /\ Len(last.encoded[1]) < Target
  /\ now >= Limit

\* C6: a capture that is open when Limit seconds have passed since its
\* start is eventually closed, whether or not its device goes on streaming.
C6_OpenCaptureEventuallyClosed ==
  \A d \in Registered : (Open(d) /\ Elapsed(d) >= Limit) ~> ~Open(d)

\* C7: a finalize on fewer than MIN_FRAMES frames calls no collaborator
\* (no encoder, no metadata, no cleanup), leaves files and rows as they
\* are and removes the capture; on MIN_FRAMES or more the encoder is
\* called first.
C7_AbortBelowMinimum ==
  [][ \A d \in Devices :
        (last'.op = "stream" /\ last'.dev = d /\ Open(d) /\ last'.finalized >= 1)
          => IF Len(Session(d).frames) + 1 < MIN_FRAMES
             THEN /\ last'.calls = <<>> /\ last'.encoded = <<>>
                  /\ files' = files /\ motionVideos' = motionVideos
                  /\ videoSeq' = videoSeq
                  /\ ~DictHas(active_captures', d)
             ELSE /\ Len(last'.encoded) = 1
                  /\ last'.calls[1].call = "create_mjpeg_video" ]_vars
\* finalize has just aborted a capture
C7_Witness ==
  /\ last.op = "stream" /\ last.finalized = 1 /\ last.encoded = <<>>
  /\ last.calls = <<>>

\* C8: a trigger whose device lookup returns nothing, or whose motion
\* event is not created, leaves the table, the published commands and the
\* motion events as they are and calls no encoder; every capture in the
\* table belongs to a registered device and to a motion event of it.
C8_FailedTriggerOpensNothing ==
  [][ /\ (last'.op = "motion" /\ (\/ Called(last', "get_device_info", FALSE)
                                  \/ Called(last', "create_motion_event", FALSE)))
           => /\ active_captures' = active_captures
              /\ published' = published
              /\ motionEvents' = motionEvents
              /\ last'.encoded = <<>> /\ last'.finalized = 0
              /\ ~Called(last', "publish", TRUE)
      /\ (last'.op = "motion" /\ Called(last', "get_device_info", FALSE))
           => ~Called(last', "create_motion_event", TRUE)
      /\ \A s \in active_captures' :
           /\ s.device_id \in Registered
           /\ \E ev \in motionEvents' :
                ev.id = s.motion_event_id /\ ev.deviceId = s.device_db_id
                  /\ devices[s.device_id].id = ev.deviceId ]_vars
\* a trigger for the device without a row has just been handled
C8_Witness ==
  /\ last.op = "motion" /\ last.dev = "cam9"
  /\ Called(last, "get_device_info", FALSE)

C10_EncoderFailureAborts ==
  [][ \A d \in Devices :
        (last'.op = "stream" /\ last'.dev = d
           /\ Called(last', "create_mjpeg_video", FALSE))
          => /\ motionVideos' = motionVideos /\ videoSeq' = videoSeq
             /\ ~Called(last', "save_video_to_db", TRUE)
             /\ ~Called(last', "save_video_to_db", FALSE)
             /\ ~Called(last', "cleanup_old_videos", TRUE)
             /\ ~Called(last', "cleanup_old_videos", FALSE)
             /\ ~DictHas(active_captures', d) ]_vars
\* a finalize whose encoder failed has just completed
C10_Witness ==
  /\ last.op = "stream" /\ last.finalized = 1
  /\ Called(last, "create_mjpeg_video", FALSE)

CleanupCompleted(l) ==
  /\ Called(l, "cleanup_old_videos", TRUE)
  /\ ~Called(l, "DELETE", FALSE)
  /\ ~Called(l, "commit", FALSE)
VideosOf(d) == {v \in motionVideos : v.deviceId = devices[d].id}

\* C12: when a finalize has just saved the metadata of a video and its
\* cleanup ran to its end, the device has at most MAX_VIDEOS rows in
\* motionVideos.
C12_AtMostMaxAfterCommit ==
  \A d \in Registered :
    (last.op = "stream" /\ last.dev = d
       /\ Called(last, "save_video_to_db", TRUE) /\ CleanupCompleted(last))
      => Cardinality(VideosOf(d)) <= MAX_VIDEOS
\* a finalize has just saved a video and its cleanup has deleted rows
C12_Witness ==
  /\ last.op = "stream" /\ Called(last, "save_video_to_db", TRUE)
  /\ Called(last, "DELETE", TRUE) /\ Called(last, "commit", TRUE)

\* C13: while a device has an entry in the table, a step leaves its frames
\* as they are or appends one frame at the tail, and leaves its motion
\* event id and its start time as they are; the entry leaves the table
\* only in a step whose handler ran finalize for the device.
C13_CaptureOnlyAppendedUntilFinalize ==
  [][ \A d \in Devices :
        Open(d) =>
          IF DictHas(active_captures', d)
          THEN /\ DictGet(active_captures', d).motion_event_id
                    = Session(d).motion_event_id
               /\ DictGet(active_captures', d).start_time = Session(d).start_time
               /\ \/ DictGet(active_captures', d).frames = Session(d).frames
                  \/ /\ Len(DictGet(active_captures', d).frames)
                          = Len(Session(d).frames) + 1
                     /\ SubSeq(DictGet(active_captures', d).frames, 1,
                               Len(Session(d).frames)) = Session(d).frames
          ELSE /\ last'.op = "stream" /\ last'.dev = d
               /\ last'.finalized = 1 ]_vars

\* every collaborator failing
NoneFine == [lookup |-> FALSE, create |-> FALSE, enc |-> "fail", save |-> FALSE,
             clean |-> "noconn", stuck |-> TRUE, tie |-> "desc"]
\* the images a camera may send
Images == {<<b>> : b \in 0..(FrameCycle - 1)}
AllStreamPayloads == UNION {StreamPayloads(img) : img \in Images}

\* C14: for a device with no entry in the table, registered or not, never
\* triggered or finalized before, the handler of a stream message, whatever
\* its payload, with the collaborators working or failing, returns with
\* the table, the tables of the database, the files and the published
\* commands as they were, and with no collaborator called and no finalize.
C14_StreamWithoutCaptureDropped ==
  \A d \in Devices :
    ~Open(d) =>
      \A payload \in AllStreamPayloads, e \in {AllFine, NoneFine} :
        on_message(World, Topic(d, "stream"), payload, e) = World
\* the capture of a device has just been finalized and has left the table:
\* the stream messages its camera still sends find no entry
C14_Witness ==
  /\ last.op = "stream" /\ last.finalized = 1
  /\ ~Open(last.dev) /\ published[last.dev] >= 1

\* topics that are not device/<deviceId>/motion or device/<deviceId>/stream:
\* fewer than three levels, more than three levels, another third level
ShortTopics == { <<>>, <<"device">> } \cup { <<"device", "/", d>> : d \in Devices }
LongTopics ==
  { Topic(d, k) \o <<"/", "extra">> : d \in Devices, k \in {"motion", "stream"} }
UnknownKindTopics == { Topic(d, k) : d \in Devices, k \in {"control", "status"} }
\* the payloads on_message can read for a topic: text where the third level
\* is not stream, JSON where it is
PayloadsFor(topic) ==
  IF Len(split(topic)) >= 3 /\ split(topic)[3] = "stream"
  THEN AllStreamPayloads ELSE MotionPayloads
Dropped(topic) ==
  \A payload \in PayloadsFor(topic), e \in {AllFine, NoneFine} :
    on_message(World, topic, payload, e) = World

\* C15: a message whose topic has fewer or more than three levels, or whose
\* third level is neither motion nor stream, is dropped: the handler
\* returns with the state as it was and no collaborator called.
C15_OffPatternTopicsDropped ==
  \A topic \in ShortTopics \cup LongTopics \cup UnknownKindTopics : Dropped(topic)

\* stream payloads that hold no frame: no JSON, no image key, and image
\* texts that are not Base64 of an image: cut short, made of characters
\* outside the alphabet, empty
NoFramePayloads ==
  { [json |-> FALSE, has_image |-> FALSE, image |-> <<>>],
    [json |-> TRUE,  has_image |-> FALSE, image |-> <<>>],
    [json |-> TRUE,  has_image |-> TRUE,  image |-> <<1>>],
    [json |-> TRUE,  has_image |-> TRUE,  image |-> <<0, 0>>],
    [json |-> TRUE,  has_image |-> TRUE,  image |-> <<>>] }

\* C16: for a device with an entry in the table, the handler of a stream
\* message whose payload holds no frame returns with the entry (frames,
\* motion event id, start time) and all other state as they were, without
\* finalize and without a collaborator called.
C16_UnparseableFrameDropped ==
  \A d \in Devices :
    Open(d) =>
      \A payload \in NoFramePayloads, e \in {AllFine, NoneFine} :
        on_message(World, Topic(d, "stream"), payload, e) = World

\* the call of on_message that is running reaches finalize_video
Finalizing(d) ==
  /\ in_callback.op = "stream" /\ in_callback.dev = d
  /\ on_message(World, in_callback.topic, in_callback.payload, AllFine).finalized >= 1

\* C17: while the call of on_message that finalizes the capture of one
\* device is running, the service can take up a message of another device.
C17_OtherDeviceNotBlocked ==
  \A a \in Devices :
    Finalizing(a) =>
      \E b \in Devices \ {a} :
        ENABLED (Receive /\ in_callback'.dev = b)

\* the cleanup of the last handler removed the file of video row id
\* (the os.remove of the finalize rollback carries no row id)
FileRemoved(l, i) == l.calls[i].call = "os.remove" /\ l.calls[i].id # 0

\* C18: in the cleanup of the last handler every os.remove of a row's
\* file, successful or not, is followed at once by the DELETE of that row,
\* and when the cleanup has returned no row is left in motionVideos whose
\* file the cleanup removed.
C18_FileAndRowGoTogether ==
  \A i \in 1..Len(last.calls) :
    FileRemoved(last, i)
      => /\ i < Len(last.calls)
         /\ last.calls[i + 1].call = "DELETE"
         /\ last.calls[i + 1].id = last.calls[i].id
         /\ last.calls[i].ok
              => ~\E v \in motionVideos : v.id = last.calls[i].id

\* the start commands the last handler published for d
Publishes(l, d) ==
  {i \in 1..Len(l.calls) :
     l.calls[i].call = "publish" /\ l.calls[i].path = Path(d, 0)}

\* C19: a step publishes one start command for a device when it stores an
\* entry with a new motion event id for it, and none otherwise; the
\* command is published with that entry in the table and is the last
\* thing its handler does; the entry has no frames then and stays in the
\* table through every step that is not a message of its device.
C19_StartCommandOncePerCapture ==
  [][ \A d \in Devices :
        /\ published'[d] = published[d] + Cardinality(Publishes(last', d))
        /\ Cardinality(Publishes(last', d))
             = IF /\ DictHas(active_captures', d)
                  /\ DictGet(active_captures', d).motion_event_id
                       \notin {ev.id : ev \in motionEvents}
               THEN 1 ELSE 0
        /\ \A i \in Publishes(last', d) :
             /\ i = Len(last'.calls)
             /\ last'.op = "motion" /\ last'.dev = d
             /\ DictHas(active_captures', d)
             /\ last'.calls[i].id = DictGet(active_captures', d).motion_event_id
             /\ DictGet(active_captures', d).frames = <<>>
        /\ (Open(d) /\ last'.dev # d) => DictHas(active_captures', d) ]_vars
\* a capture was opened with one start command and the clock has reached
\* MaxTime without a frame of its device
C19_Witness ==
  \E d \in Registered :
    /\ Open(d) /\ Session(d).frames = <<>>
    /\ published[d] = 1 /\ now = MaxTime

\* C20: for a registered device with no entry in the table and with every
\* collaborator working, the handler of a motion message stores an entry
\* for the device whatever the payload is.
C20_AnyMotionPayloadOpensCapture ==
  \A d \in Registered :
    ~Open(d) =>
      \A payload \in MotionPayloads :
        DictHas(on_message(World, Topic(d, "motion"), payload, AllFine).ac, d)

C22_FilepathsDistinct ==
  /\ \A v, w \in motionVideos : v.filepath = w.filepath => v = w
  /\ CleanupCompleted(last)
       => \A i \in 1..Len(last.calls) :
            (FileRemoved(last, i) /\ last.calls[i].ok)
              => \A v \in motionVideos : v.filepath # last.calls[i].path

\* W leaves every device other than a as it is in the current state: its
\* entry in the table, its rows in motionVideos, its files, its start
\* commands
Untouched(W, a) ==
  \A b \in Devices \ {a} :
    /\ {c \in W.ac : c.device_id = b} = {c \in active_captures : c.device_id = b}
    /\ {f \in W.files : f.dev = b} = {f \in files : f.dev = b}
    /\ W.pub[b] = published[b]
    /\ b \in Registered
         => {v \in W.vid : v.deviceId = devices[b].id} = VideosOf(b)
\* the answers that matter to a handler, given what it does when every
\* collaborator works
AnswersFor(W0, env) == IF W0.calls = <<>> THEN {AllFine} ELSE env

C24_FlagOnlyAfterDispatch ==
  \A r \in motionEvents : r.notificationSent = 1 => r.id \in dispatched

====
